---- MODULE Spec2Model ----
(***************************************************************************)
(* The Martingale roulette simulation of src/martingale.py.                *)
(*                                                                         *)
(* Under Spec one behaviour is one call of iterate_martingale (the         *)
(* reset-on-win trial) or of play_martingale (the walk-away trial); under  *)
(* SimSpec it is one call of simulate_martingales or of test_targets, with *)
(* every trial they run; under PairSpec it is two calls of                 *)
(* iterate_martingale that receive the same draws.  Money amounts are      *)
(* integers.  Probabilities and the uniform draws of np.random.random()    *)
(* are counted in halves: win_probability 1 is 0.5, 2 is 1.0; a draw is    *)
(* 0 (0.0) or 1 (0.5), both in [0,1).                                      *)
(*                                                                         *)
(* A Python local that has not been assigned yet is the empty sequence,    *)
(* an assigned one is the one-element sequence of its value.               *)
(***************************************************************************)
EXTENDS Integers, Sequences, FiniteSets, TLC

\* ------------------------------------------------------------------ bounds
MaxBankroll == 7
MaxTarget == 3
MaxMinBet == 2
MaxMaxBet == 4
\* No run of the model plays more spins than this (the code has no such cap:
\* CapNotReached states that no run with valid parameters ever needs it).
MaxSpins == 12

Functions == {"iterate_martingale", "play_martingale"}
Bankrolls == -1 .. MaxBankroll
Targets == -1 .. MaxTarget
MinBets == 0 .. MaxMinBet
MaxBets == 0 .. MaxMaxBet
WinProbabilities == -1 .. 3
RandomDraws == {0, 1}

VARIABLES
    fn,               \* the function called
    initial_bankroll, \* the argument `bankroll` as passed by the caller
    target, min_bet, max_bet, win_probability, verbose,   \* the other arguments
    pc,               \* "loop": at the while test; "done": the call has ended
    bankroll, bet, winnings, gain, bankroll_log,          \* the locals
    outcome,          \* the message local: <<>> while unassigned
    reached_target,   \* <<>> while unassigned, else <<0>> or <<1>>
    returned,         \* <<>>, or <<v>> once the call returned v
    raised,           \* "" or the name of the exception that ended the call
    stakes,           \* history: the bet placed at each spin
    caller,           \* "none", or the outermost function called
    frame,            \* where the callers are: "trial", "append", "for", "done"
    wins, sim_i,      \* simulate_martingales: its locals wins and i
    win_pct,          \* <<>>, or <<v>> once simulate_martingales returned v
    target_list,      \* test_targets: its argument
    win_pct_list,     \* test_targets: its local
    calls,            \* history: the targets simulate_martingales was called with
    low, high,        \* PairSpec: two trials on the same draws (records)
    target_low, target_high   \* PairSpec: their targets

params == <<fn, initial_bankroll, target, min_bet, max_bet, win_probability, verbose>>
locals == <<bankroll, bet, winnings, gain, bankroll_log, outcome, reached_target>>
outer == <<caller, frame, wins, sim_i, win_pct, target_list, win_pct_list, calls>>
pair == <<low, high, target_low, target_high>>
vars == <<params, pc, locals, returned, raised, stakes, outer, pair>>

\* ----------------------------------------------------------- pure helpers
\* Mutant: the outcome is not multiplied by the bet.
play_roulette_SignOnly(b, p, r) == IF r < p THEN 1 ELSE -1

\* play_roulette: plus or minus the bet; r is the value of np.random.random().
play_roulette(b, p, r) ==
    LET sign == IF r < p THEN 1 ELSE -1
    IN  b * sign

\* Mutant: the bankroll is not tested against the bet.
IterateGuard_NoFunds(bk, b, mx, g, t) == b <= mx /\ g < t

\* Mutant: a bankroll equal to the bet is not enough to play.
IterateGuard_StrictFunds(bk, b, mx, g, t) == bk > b /\ b <= mx /\ g < t

\* Mutant: the table limit is not tested.
IterateGuard_NoLimit(bk, b, mx, g, t) == bk >= b /\ g < t

\* The while test of iterate_martingale.
IterateGuard(bk, b, mx, g, t) == bk >= b /\ b <= mx /\ g < t

\* Mutant: a loss leaves the bet as it is.
NextBet_NoDoubling(w, b, mn) == IF w < 0 THEN b ELSE mn

\* "double your bet until you win, then reset"
NextBet(w, b, mn) == IF w < 0 THEN b * 2 ELSE mn

\* The three message assignments at the end of one iteration, in order: the
\* last one that applies is the one that stays.
NextOutcome(old, bk, b, mx, g, t) ==
    IF g >= t THEN <<"won">>
    ELSE IF bk < b THEN <<"broke">>
    ELSE IF b > mx THEN <<"limit">>
    ELSE old

\* Mutant: a gain equal to the target does not count as reached.
ReachedTarget_Strict(g, t) == IF g > t THEN 1 ELSE 0

ReachedTarget(g, t) == IF g >= t THEN 1 ELSE 0

\* Mutant: the trial goes on after a win.
PlayGuard_NoWalkAway(bk, b, mx, w) == bk >= b /\ b <= mx

\* Mutant: the table limit is not tested.
PlayGuard_NoLimit(bk, b, mx, w) == bk >= b /\ w <= 0

\* The while test of play_martingale.
PlayGuard(bk, b, mx, w) == bk >= b /\ b <= mx /\ w <= 0

\* The message assignments of play_martingale (only when verbose; a win
\* prints and assigns nothing).
PlayOutcome(old, v, bk, b, mx) ==
    IF ~v THEN old
    ELSE IF bk < b THEN <<"broke">>
    ELSE IF b > mx THEN <<"limit">>
    ELSE old

\* ------------------------------------------------------------------- Init
\* The state after the initialisation lines of the function called.
\* play_martingale has no target and no gain: both stay 0 there.
Init ==
    /\ fn \in Functions
    /\ initial_bankroll \in Bankrolls
    /\ target \in (IF fn = "iterate_martingale" THEN Targets ELSE {0})
    /\ min_bet \in MinBets
    /\ max_bet \in MaxBets
    /\ win_probability \in WinProbabilities
    /\ verbose \in BOOLEAN
    /\ pc = "loop"
    /\ bankroll = initial_bankroll
    /\ bankroll_log = <<initial_bankroll>>
    /\ bet = min_bet
    /\ winnings = 0
    /\ gain = 0
    /\ outcome = <<>>
    /\ reached_target = <<>>
    /\ returned = <<>>
    /\ raised = ""
    /\ stakes = <<>>
    /\ caller = "none"
    /\ frame = "trial"
    /\ wins = 0
    /\ sim_i = 0
    /\ win_pct = <<>>
    /\ target_list = <<>>
    /\ win_pct_list = <<>>
    /\ calls = <<>>
    /\ low = <<>>
    /\ high = <<>>
    /\ target_low = 0
    /\ target_high = 0

\* ---------------------------------------------------------------- actions
\* One iteration of the while loop of iterate_martingale.
iterate_martingale_spin ==
    /\ fn = "iterate_martingale"
    /\ pc = "loop"
    /\ IterateGuard(bankroll, bet, max_bet, gain, target)
    /\ Len(stakes) < MaxSpins
    /\ \E r \in RandomDraws :
         LET w   == play_roulette(bet, win_probability, r)
             bk  == bankroll + w
             log == Append(bankroll_log, bk)
             g   == log[Len(log)] - log[1]
             b   == NextBet(w, bet, min_bet)
         IN  /\ winnings' = w
             /\ bankroll' = bk
             /\ bankroll_log' = log
             /\ gain' = g
             /\ bet' = b
             /\ outcome' = NextOutcome(outcome, bk, b, max_bet, g, target)
             /\ reached_target' = <<ReachedTarget(g, target)>>
             /\ stakes' = Append(stakes, bet)
    /\ UNCHANGED <<params, pc, returned, raised, outer, pair>>

\* The while test fails and every local read after the loop is assigned:
\* the flag is returned.
iterate_martingale_return ==
    /\ fn = "iterate_martingale"
    /\ pc = "loop"
    /\ ~IterateGuard(bankroll, bet, max_bet, gain, target)
    /\ ~(verbose /\ Len(outcome) = 0)
    /\ Len(reached_target) = 1
    /\ pc' = "done"
    /\ returned' = reached_target
    /\ UNCHANGED <<params, locals, raised, stakes, outer, pair>>

\* The while test fails and `print outcome` (verbose) or `return
\* reached_target` reads a local that was never assigned.
iterate_martingale_raise ==
    /\ fn = "iterate_martingale"
    /\ pc = "loop"
    /\ ~IterateGuard(bankroll, bet, max_bet, gain, target)
    /\ (verbose /\ Len(outcome) = 0) \/ Len(reached_target) = 0
    /\ pc' = "done"
    /\ raised' = "UnboundLocalError"
    /\ UNCHANGED <<params, locals, returned, stakes, outer, pair>>

\* One iteration of the while loop of play_martingale.
play_martingale_spin ==
    /\ fn = "play_martingale"
    /\ pc = "loop"
    /\ PlayGuard(bankroll, bet, max_bet, winnings)
    /\ Len(stakes) < MaxSpins
    /\ \E r \in RandomDraws :
         LET w  == play_roulette(bet, win_probability, r)
             bk == bankroll + w
             b  == bet * 2
         IN  /\ winnings' = w
             /\ bankroll' = bk
             /\ bankroll_log' = Append(bankroll_log, bk)
             /\ bet' = b
             /\ outcome' = PlayOutcome(outcome, verbose, bk, b, max_bet)
             /\ stakes' = Append(stakes, bet)
    /\ UNCHANGED <<params, pc, gain, reached_target, returned, raised, outer, pair>>

\* The while test of play_martingale fails: the log is returned.
play_martingale_return ==
    /\ fn = "play_martingale"
    /\ pc = "loop"
    /\ ~PlayGuard(bankroll, bet, max_bet, winnings)
    /\ pc' = "done"
    /\ returned' = <<bankroll_log>>
    /\ UNCHANGED <<params, locals, raised, stakes, outer, pair>>

Next ==
    \/ iterate_martingale_spin
    \/ iterate_martingale_return
    \/ iterate_martingale_raise
    \/ play_martingale_spin
    \/ play_martingale_return

Spec == Init /\ [][Next]_vars

\* The program is one synchronous thread: a step that can be taken is taken.
FairSpec == Spec /\ WF_vars(Next)

\* ------------------------------------------- the aggregator and the sweep
\* range(1000), and the divisor of win_pct.
NumTrials == 1000

\* The inputs of simulate_martingales and test_targets that are explored.
\* The sweep is explored with the probabilities 0 and 1 only, where every
\* trial of one call ends the same way.
SimBankrolls == {0, 1}
SimTargets == {0, 1}
SimMinBets == {1}
SimMaxBets == {1}
SimWinProbabilities == {0, 1, 2}
SweepWinProbabilities == {0, 2}
TargetLists == {<<>>, <<1>>, <<1, 2>>, <<2, 1>>, <<1, 0>>}

\* Mutant: the log is one list shared by all the trials.
TrialLog_Shared(bk) == Append(bankroll_log, bk)

\* bankroll_log = [bankroll]
TrialLog(bk) == <<bk>>

\* wins*1.0/1000, kept as the fraction <<numerator, denominator>>.
WinPct(w) == <<w, NumTrials>>

\* A call of iterate_martingale by simulate_martingales: its arguments are
\* the caller's own, verbose is False, and its locals are initialised.
StartTrial ==
    /\ pc' = "loop"
    /\ bankroll' = initial_bankroll
    /\ bankroll_log' = TrialLog(initial_bankroll)
    /\ bet' = min_bet
    /\ winnings' = 0
    /\ gain' = 0
    /\ outcome' = <<>>
    /\ reached_target' = <<>>
    /\ returned' = <<>>
    /\ stakes' = <<>>
    /\ UNCHANGED <<fn, initial_bankroll, min_bet, max_bet, win_probability,
                   verbose, raised>>

\* The state after `wins = 0` and the first call of the trial
\* (simulate_martingales), or at the head of the for loop (test_targets).
SimInit ==
    /\ caller \in {"simulate_martingales", "test_targets"}
    /\ fn = "iterate_martingale"
    /\ initial_bankroll \in SimBankrolls
    /\ min_bet \in SimMinBets
    /\ max_bet \in SimMaxBets
    /\ verbose = FALSE
    /\ IF caller = "simulate_martingales"
       THEN /\ target \in SimTargets
            /\ win_probability \in SimWinProbabilities
            /\ target_list = <<>>
            /\ frame = "trial"
            /\ pc = "loop"
            /\ calls = <<target>>
       ELSE /\ target = 0
            /\ win_probability \in SweepWinProbabilities
            /\ target_list \in TargetLists
            /\ frame = "for"
            /\ pc = "done"
            /\ calls = <<>>
    /\ bankroll = initial_bankroll
    /\ bankroll_log = <<initial_bankroll>>
    /\ bet = min_bet
    /\ winnings = 0
    /\ gain = 0
    /\ outcome = <<>>
    /\ reached_target = <<>>
    /\ returned = <<>>
    /\ raised = ""
    /\ stakes = <<>>
    /\ wins = 0
    /\ sim_i = 0
    /\ win_pct = <<>>
    /\ win_pct_list = <<>>
    /\ low = <<>>
    /\ high = <<>>
    /\ target_low = 0
    /\ target_high = 0

\* A trial returned its flag and it was not the last one: the flag is added
\* to wins and the next trial is called.
simulate_martingales_next ==
    /\ caller # "none"
    /\ frame = "trial"
    /\ pc = "done"
    /\ raised = ""
    /\ sim_i + 1 < NumTrials
    /\ wins' = wins + returned[1]
    /\ sim_i' = sim_i + 1
    /\ StartTrial
    /\ UNCHANGED <<target, caller, frame, win_pct, target_list, win_pct_list, calls, pair>>

\* The last trial returned its flag: the flag is added to wins and win_pct
\* is returned.
simulate_martingales_return ==
    /\ caller # "none"
    /\ frame = "trial"
    /\ pc = "done"
    /\ raised = ""
    /\ sim_i + 1 = NumTrials
    /\ wins' = wins + returned[1]
    /\ sim_i' = sim_i + 1
    /\ win_pct' = <<WinPct(wins + returned[1])>>
    /\ frame' = IF caller = "test_targets" THEN "append" ELSE "done"
    /\ UNCHANGED <<params, pc, locals, returned, raised, stakes, caller,
                   target_list, win_pct_list, calls, pair>>

\* test_targets takes the next target of its list and calls
\* simulate_martingales, which sets wins = 0 and calls its first trial.
test_targets_call ==
    /\ caller = "test_targets"
    /\ frame = "for"
    /\ Len(win_pct_list) < Len(target_list)
    /\ target' = target_list[Len(win_pct_list) + 1]
    /\ calls' = Append(calls, target_list[Len(win_pct_list) + 1])
    /\ wins' = 0
    /\ sim_i' = 0
    /\ win_pct' = <<>>
    /\ frame' = "trial"
    /\ StartTrial
    /\ UNCHANGED <<caller, target_list, win_pct_list, pair>>

\* win_pct_list.append(win_pct)
test_targets_append ==
    /\ caller = "test_targets"
    /\ frame = "append"
    /\ win_pct_list' = Append(win_pct_list, win_pct[1])
    /\ frame' = "for"
    /\ UNCHANGED <<params, pc, locals, returned, raised, stakes, caller, wins,
                   sim_i, win_pct, target_list, calls, pair>>

\* The list is exhausted: test_targets returns win_pct_list.
test_targets_return ==
    /\ caller = "test_targets"
    /\ frame = "for"
    /\ Len(win_pct_list) = Len(target_list)
    /\ frame' = "done"
    /\ UNCHANGED <<params, pc, locals, returned, raised, stakes, caller, wins,
                   sim_i, win_pct, target_list, win_pct_list, calls, pair>>

\* An exception raised by a trial is caught nowhere: it ends the callers
\* with it, and no action follows it.
SimNext ==
    \/ iterate_martingale_spin
    \/ iterate_martingale_return
    \/ iterate_martingale_raise
    \/ simulate_martingales_next
    \/ simulate_martingales_return
    \/ test_targets_call
    \/ test_targets_append
    \/ test_targets_return

SimSpec == SimInit /\ [][SimNext]_vars

\* ------------------------------------------------- vocabulary of the claims
RECURSIVE Pow2(_)
Pow2(k) == IF k <= 0 THEN 1 ELSE 2 * Pow2(k - 1)

\* floor(log2(mx/mn)) and ceil(log2(mx/mn)) for 0 < mn <= mx.
FloorLog2(mx, mn) ==
    CHOOSE k \in 0 .. mx : mn * Pow2(k) <= mx /\ mn * Pow2(k + 1) > mx
CeilLog2(mx, mn) ==
    CHOOSE k \in 0 .. mx : mn * Pow2(k) >= mx /\ (k = 0 \/ mn * Pow2(k - 1) < mx)

\* ceil(a/b) for b > 0.
CeilDiv(a, b) == (a + b - 1) \div b

\* The parameters the claims call valid for a trial.
ValidTrial == min_bet > 0 /\ max_bet >= min_bet /\ initial_bankroll >= 0
ValidParameters == ValidTrial /\ win_probability \in 0 .. 2

Iterating == fn = "iterate_martingale"
Spins == Len(stakes)

\* The number of losing spins at the end of a log (steps down).
RECURSIVE TrailingLosses(_)
TrailingLosses(log) ==
    IF Len(log) < 2 THEN 0
    ELSE IF log[Len(log)] < log[Len(log) - 1]
         THEN 1 + TrailingLosses(SubSeq(log, 1, Len(log) - 1))
         ELSE 0

\* The spin cap of the model is never what stops a trial with valid
\* parameters: whenever the while test holds, the spin can be played.
CapNotReached ==
    (ValidTrial /\ pc = "loop"
       /\ (IF Iterating THEN IterateGuard(bankroll, bet, max_bet, gain, target)
                        ELSE PlayGuard(bankroll, bet, max_bet, winnings)))
    => Spins < MaxSpins

\* ------------------------------------------------------------------- C1
\* C1 as stated: with valid parameters, one run of iterate_martingale never
\* plays more than ceil(log2(max_bet/min_bet)) + 2 spins.
C1_SpinsWithinLogBound ==
    (Iterating /\ ValidTrial) => Spins <= CeilLog2(max_bet, min_bet) + 2

\* C1 amended: with valid parameters, the number of consecutive losing spins
\* never exceeds floor(log2(max_bet/min_bet)) + 1, and the number of spins of
\* one run never exceeds (floor(log2(max_bet/min_bet)) + 1) *
\* ceil(target/min_bet) when target > 0, and is 0 when target <= 0.
C1_SpinsBounded ==
    (Iterating /\ ValidTrial) =>
        /\ TrailingLosses(bankroll_log) <= FloorLog2(max_bet, min_bet) + 1
        /\ Spins <= IF target > 0
                    THEN (FloorLog2(max_bet, min_bet) + 1) * CeilDiv(target, min_bet)
                    ELSE 0

\* A finished valid run that played more spins than the stated bound and
\* exactly as many as the amended one allows.
C1_Witness ==
    /\ Iterating /\ ValidTrial /\ pc = "done" /\ target > 0
    /\ Spins > CeilLog2(max_bet, min_bet) + 2
    /\ Spins = (FloorLog2(max_bet, min_bet) + 1) * CeilDiv(target, min_bet)

\* ------------------------------------------------------------------- C2
\* C2: with valid parameters, the loop of iterate_martingale terminates on
\* every sequence of outcomes: every run reaches the end of the call.
C2_LoopTerminates == (Iterating /\ ValidTrial) ~> (pc = "done")

\* A valid run that ended after wins and losses in the same run.
C2_Witness ==
    /\ Iterating /\ ValidTrial /\ pc = "done"
    /\ Spins >= 4
    /\ \E i \in 1 .. Spins : bankroll_log[i + 1] < bankroll_log[i]
    /\ \E i \in 1 .. Spins : bankroll_log[i + 1] > bankroll_log[i]

\* ------------------------------------------------------------------- C3
\* C3 as stated: a call of iterate_martingale with target <= 0 plays no spin
\* and returns 1, its log holding the initial bankroll alone (here for the
\* calls whose other parameters are valid).
C3_NonPositiveTargetSucceeds ==
    (Iterating /\ ValidParameters /\ target <= 0 /\ pc = "done") =>
        /\ Spins = 0
        /\ bankroll_log = <<initial_bankroll>>
        /\ raised = ""
        /\ returned = <<1>>

\* ------------------------------------------------------------------- C4
\* C4 as stated: a call of iterate_martingale with min_bet > initial
\* bankroll and target > 0 plays no spin and returns 0, its log holding the
\* initial bankroll alone (here for the calls whose parameters are valid).
C4_UnaffordableMinBetFails ==
    (Iterating /\ ValidParameters /\ min_bet > initial_bankroll /\ target > 0
       /\ pc = "done") =>
        /\ Spins = 0
        /\ bankroll_log = <<initial_bankroll>>
        /\ raised = ""
        /\ returned = <<0>>

\* ------------------------------------------------------------------- C5
\* C5 as stated: every call of iterate_martingale ends by returning a flag,
\* never by an exception; the flag is 1 exactly when gain >= target at the
\* exit of the loop, and 0 when the loop stopped on bet > max_bet or
\* bankroll < bet (here for the calls whose parameters are valid).
C5_FlagMatchesExitReason ==
    (Iterating /\ ValidParameters /\ pc = "done") =>
        /\ raised = ""
        /\ (returned = <<1>>) <=> (gain >= target)
        /\ (gain < target /\ (bet > max_bet \/ bankroll < bet)) => returned = <<0>>

\* ------------------------------------------------------------------- C6
ReasonTarget == gain >= target
ReasonLimit == bet > max_bet
ReasonFunds == bankroll < bet
ExactlyOneReason ==
    \/ ReasonTarget /\ ~ReasonLimit /\ ~ReasonFunds
    \/ ~ReasonTarget /\ ReasonLimit /\ ~ReasonFunds
    \/ ~ReasonTarget /\ ~ReasonLimit /\ ReasonFunds

\* C6 as stated: when the loop of iterate_martingale has exited, exactly one
\* of gain >= target, bet > max_bet, bankroll < bet holds (here already for
\* the runs with valid parameters that return their flag).
C6_ExactlyOneExitReason ==
    (Iterating /\ ValidTrial /\ pc = "done" /\ raised = "") => ExactlyOneReason

\* C6 amended: when the loop has exited, at least one of the three reasons
\* holds; after at least one spin gain >= target excludes the other two,
\* while bet > max_bet and bankroll < bet may hold together.
C6_ExitReasons ==
    (Iterating /\ pc = "done") =>
        /\ ReasonTarget \/ ReasonLimit \/ ReasonFunds
        /\ (Spins >= 1 /\ ReasonTarget) => (~ReasonLimit /\ ~ReasonFunds)

\* A valid run that lost its last spin, and left both the table limit
\* exceeded and the bankroll too small for the next bet.
C6_Witness ==
    /\ Iterating /\ ValidTrial /\ pc = "done" /\ Spins >= 1
    /\ ReasonLimit /\ ReasonFunds /\ ~ReasonTarget
    /\ returned = <<0>>

\* ------------------------------------------------------------------- C7
\* C7 as stated: a call of iterate_martingale with invalid parameters plays
\* no spin, appends nothing to the log, and ends with InvalidParameter.
C7_InvalidParametersRejected ==
    (Iterating /\ ~ValidParameters) =>
        /\ Spins = 0
        /\ Len(bankroll_log) = 1
        /\ pc = "done" => raised = "InvalidParameter"

\* ------------------------------------------------------------------- C8
\* C8: in every state of an iterate_martingale trial the log starts with the
\* initial bankroll, holds one entry per spin after it, and each entry
\* differs from the one before by plus or minus the bet placed at that spin.
C8_LogFollowsStakes ==
    Iterating =>
        /\ Len(bankroll_log) = Spins + 1
        /\ bankroll_log[1] = initial_bankroll
        /\ \A i \in 1 .. Spins :
             bankroll_log[i + 1] - bankroll_log[i] \in {stakes[i], -stakes[i]}

\* A trial that has won and lost, one of its spins at a doubled bet.
C8_Witness ==
    /\ Iterating /\ Spins >= 3
    /\ \E i \in 1 .. Spins : stakes[i] >= 2 * min_bet /\ stakes[i] >= 2
    /\ \E i \in 1 .. Spins : bankroll_log[i + 1] < bankroll_log[i]
    /\ \E i \in 1 .. Spins : bankroll_log[i + 1] > bankroll_log[i]

\* ------------------------------------------------------------------- C9
\* C9 as stated: in every state of an iterate_martingale trial the bet is
\* positive and equals min_bet * 2^k, k the number of losses since the last
\* win (or since the start).
C9_BetIsDoubledMinBet ==
    Iterating =>
        /\ bet > 0
        /\ bet = min_bet * Pow2(TrailingLosses(bankroll_log))

\* ------------------------------------------------------------------ C10
\* C10: in every state of a trial of either function started with a
\* bankroll >= 0 and a min_bet > 0, the bankroll, and every bankroll logged,
\* is >= 0.
C10_BankrollNeverNegative ==
    (initial_bankroll >= 0 /\ min_bet > 0) =>
        /\ bankroll >= 0
        /\ \A i \in 1 .. Len(bankroll_log) : bankroll_log[i] >= 0

\* A walk-away trial that lost everything: its last bet was the whole
\* bankroll.
C10_Witness ==
    /\ fn = "play_martingale" /\ initial_bankroll > 0 /\ min_bet > 0
    /\ Spins >= 2 /\ bankroll = 0
    /\ stakes[Spins] = bankroll_log[Spins]

\* ------------------------------------------------------------------ C11
\* C11: with win_probability 1, 0 < target <= min_bet <= max_bet and an
\* initial bankroll >= min_bet, iterate_martingale plays exactly one spin,
\* at the stake min_bet, ends with gain min_bet and returns 1.
C11_CertainWinOneSpin ==
    (Iterating /\ win_probability = 2 /\ 0 < target /\ target <= min_bet
       /\ min_bet <= max_bet /\ initial_bankroll >= min_bet) =>
        /\ Spins <= 1
        /\ Spins = 0 => (pc = "loop"
                           /\ IterateGuard(bankroll, bet, max_bet, gain, target))
        /\ Spins = 1 => /\ stakes = <<min_bet>>
                        /\ gain = min_bet
                        /\ bankroll = initial_bankroll + min_bet
                        /\ ~IterateGuard(bankroll, bet, max_bet, gain, target)
        /\ pc = "done" => (Spins = 1 /\ raised = "" /\ returned = <<1>>)

\* Such a call has returned 1 after its one spin, the target below min_bet.
C11_Witness ==
    /\ Iterating /\ win_probability = 2 /\ 0 < target /\ target < min_bet
    /\ min_bet <= max_bet /\ initial_bankroll >= min_bet
    /\ pc = "done" /\ Spins = 1 /\ returned = <<1>> /\ gain = min_bet

\* ------------------------------------------------------------------ C12
\* C12 as stated: with win_probability 0 a call of iterate_martingale ends
\* with bet > max_bet or bankroll < bet and returns 0 (here for the calls
\* with valid parameters and a target > 0).
C12_NoWinNeverSucceeds ==
    (Iterating /\ ValidParameters /\ target > 0 /\ win_probability = 0
       /\ pc = "done") =>
        /\ raised = ""
        /\ returned = <<0>>
        /\ bet > max_bet \/ bankroll < bet

\* ------------------------------------------------------------------ C14
Playing == fn = "play_martingale"

\* C14 as stated: in play_martingale the stake of the i-th spin is
\* min_bet * 2^(i-1), every logged step before the last is a decrease, and
\* the loop ends right after a step up (the first winning spin); here for
\* the calls whose bankroll, max_bet and win_probability are valid.
C14_WalkAwayAfterFirstWin ==
    (Playing /\ initial_bankroll >= 0 /\ max_bet >= min_bet
       /\ win_probability \in 0 .. 2) =>
        /\ \A i \in 1 .. Spins : stakes[i] = min_bet * Pow2(i - 1)
        /\ \A i \in 1 .. Spins - 1 : bankroll_log[i + 1] < bankroll_log[i]
        /\ (Spins >= 1 /\ bankroll_log[Spins + 1] > bankroll_log[Spins])
             => ~PlayGuard(bankroll, bet, max_bet, winnings)

\* ------------------------------------------------------------------ C17
\* The number of winning spins in a log (steps up).
RECURSIVE Wins(_)
Wins(log) ==
    IF Len(log) < 2 THEN 0
    ELSE Wins(SubSeq(log, 1, Len(log) - 1))
         + (IF log[Len(log)] > log[Len(log) - 1] THEN 1 ELSE 0)

C20_WalkAwayBounded ==
    /\ [] ((Playing /\ min_bet > 0 /\ max_bet >= min_bet) =>
             /\ Spins <= FloorLog2(max_bet, min_bet) + 1
             /\ Len(bankroll_log) <= FloorLog2(max_bet, min_bet) + 2)
    /\ (Playing /\ min_bet > 0 /\ max_bet >= min_bet) ~> (pc = "done")

\* A walk-away trial that lost as many spins as the table limit allows.
C20_Witness ==
    /\ Playing /\ min_bet > 0 /\ max_bet >= min_bet /\ pc = "done"
    /\ Spins = FloorLog2(max_bet, min_bet) + 1 /\ Spins >= 3
    /\ winnings < 0

\* ------------------------------------------------------------------ C13
\* C13 as stated: every call of simulate_martingales runs its trial 1000
\* times with the same parameters and returns (the number of trials that
\* returned 1) / 1000, a value in [0,1].
C13_ThousandTrials ==
    (caller = "simulate_martingales" /\ (frame = "done" \/ raised # "")) =>
        /\ raised = ""
        /\ sim_i = NumTrials
        /\ calls = <<target>>
        /\ win_pct = <<WinPct(wins)>>
        /\ 0 <= wins /\ wins <= NumTrials

\* ------------------------------------------------------------------ C15
\* C15 as stated: every call of test_targets returns one success rate per
\* element of target_list, in the order of the list, each from one call of
\* simulate_martingales with that target.
C15_OneRatePerTarget ==
    (caller = "test_targets" /\ (frame = "done" \/ raised # "")) =>
        /\ raised = ""
        /\ calls = target_list
        /\ Len(win_pct_list) = Len(target_list)

\* ------------------------------------------------------------------ C16
FreshTrial ==
    /\ bankroll = initial_bankroll
    /\ bet = min_bet
    /\ gain = 0
    /\ winnings = 0
    /\ bankroll_log = <<initial_bankroll>>
    /\ Len(outcome) = 0
    /\ Len(reached_target) = 0
    /\ Len(returned) = 0
    /\ raised = ""

\* C16: whenever a trial is started after another one has ended (or as the
\* first one of a call of simulate_martingales by test_targets), it starts
\* with bankroll = initial_bankroll, bet = min_bet, gain = 0 and the log
\* [initial_bankroll], no flag or message assigned, and with the parameters
\* of the trial before it (but for the target of a new sweep step).
C16_TrialsStartFresh ==
    [][(pc = "done" /\ pc' = "loop") =>
         /\ FreshTrial'
         /\ <<fn, initial_bankroll, min_bet, max_bet, win_probability, verbose>>'
              = <<fn, initial_bankroll, min_bet, max_bet, win_probability, verbose>>
         /\ frame = "trial" => target' = target]_vars

\* A trial of simulate_martingales about to start, after trials that
\* returned 1 and trials that returned 0.
C16_Witness ==
    /\ caller = "simulate_martingales" /\ frame = "trial" /\ pc = "loop"
    /\ sim_i >= 3 /\ wins >= 1 /\ wins < sim_i
    /\ Spins = 0 /\ FreshTrial

\* ------------------------------------------- two trials on the same draws
\* Two calls of iterate_martingale with the same initial_bankroll, min_bet,
\* max_bet and win_probability, and targets target_low and target_high, are
\* run side by side: spin number k of either call receives the same draw.
\* Each call is a record of its locals; verbose is False in both.

NewTrial ==
    [bankroll |-> initial_bankroll, bankroll_log |-> <<initial_bankroll>>,
     bet |-> min_bet, winnings |-> 0, gain |-> 0, reached_target |-> <<>>,
     returned |-> <<>>, raised |-> "", pc |-> "loop"]

\* The while condition of call s with target t.
TrialGuard(s, t) ==
    s.pc = "loop" /\ IterateGuard(s.bankroll, s.bet, max_bet, s.gain, t)

\* One pass of the loop body of call s with target t on draw r.
IterateStep(s, t, r) ==
    LET w == play_roulette(s.bet, win_probability, r)
        bk == s.bankroll + w
        g == bk - initial_bankroll
    IN [s EXCEPT !.winnings = w,
                 !.bankroll = bk,
                 !.bankroll_log = Append(s.bankroll_log, bk),
                 !.gain = g,
                 !.bet = NextBet(w, s.bet, min_bet),
                 !.reached_target = <<ReachedTarget(g, t)>>]

\* The return statement of call s: the flag, or UnboundLocalError when the
\* loop body never ran.
IterateEnd(s) ==
    IF Len(s.reached_target) = 0
    THEN [s EXCEPT !.pc = "done", !.raised = "UnboundLocalError"]
    ELSE [s EXCEPT !.pc = "done", !.returned = s.reached_target]

PairInit ==
    /\ fn = "iterate_martingale"
    /\ initial_bankroll \in Bankrolls
    /\ min_bet \in MinBets
    /\ max_bet \in MaxBets
    /\ win_probability \in WinProbabilities
    /\ target_low \in Targets
    /\ target_high \in Targets
    /\ low = NewTrial
    /\ high = NewTrial
    /\ target = 0
    /\ verbose = FALSE
    /\ pc = "done"
    /\ bankroll = initial_bankroll
    /\ bankroll_log = <<initial_bankroll>>
    /\ bet = min_bet
    /\ winnings = 0
    /\ gain = 0
    /\ outcome = <<>>
    /\ reached_target = <<>>
    /\ returned = <<>>
    /\ raised = ""
    /\ stakes = <<>>
    /\ caller = "pair"
    /\ frame = "done"
    /\ wins = 0
    /\ sim_i = 0
    /\ win_pct = <<>>
    /\ target_list = <<>>
    /\ win_pct_list = <<>>
    /\ calls = <<>>

\* Both calls are offered the next draw; a call takes it when its while
\* condition holds.
pair_spin ==
    /\ caller = "pair"
    /\ TrialGuard(low, target_low) \/ TrialGuard(high, target_high)
    /\ Len(low.bankroll_log) <= MaxSpins
    /\ Len(high.bankroll_log) <= MaxSpins
    /\ \E r \in RandomDraws :
         /\ low' = IF TrialGuard(low, target_low)
                   THEN IterateStep(low, target_low, r) ELSE low
         /\ high' = IF TrialGuard(high, target_high)
                    THEN IterateStep(high, target_high, r) ELSE high
    /\ UNCHANGED <<params, pc, locals, returned, raised, stakes, outer,
                   target_low, target_high>>

\* The call with the lower target leaves its loop.
pair_end_low ==
    /\ caller = "pair"
    /\ low.pc = "loop"
    /\ ~TrialGuard(low, target_low)
    /\ low' = IterateEnd(low)
    /\ UNCHANGED <<params, pc, locals, returned, raised, stakes, outer,
                   high, target_low, target_high>>

\* The call with the higher target leaves its loop.
pair_end_high ==
    /\ caller = "pair"
    /\ high.pc = "loop"
    /\ ~TrialGuard(high, target_high)
    /\ high' = IterateEnd(high)
    /\ UNCHANGED <<params, pc, locals, returned, raised, stakes, outer,
                   low, target_low, target_high>>

PairNext ==
    \/ pair_spin
    \/ pair_end_low
    \/ pair_end_high

PairSpec == PairInit /\ [][PairNext]_vars

IsPrefix(a, b) == Len(a) <= Len(b) /\ SubSeq(b, 1, Len(a)) = a

PairDone == low.pc = "done" /\ high.pc = "done"

\* C19: of two trials with the same initial_bankroll, min_bet and max_bet and
\* the same outcomes, and targets 0 < target_low <= target_high, the one with
\* the lower target returns success whenever the other does, and its
\* bankroll log is a prefix of the other's.
C19_LowerTargetNoHarder ==
    (PairDone /\ 0 < target_low /\ target_low <= target_high) =>
        /\ high.returned = <<1>> => low.returned = <<1>>
        /\ IsPrefix(low.bankroll_log, high.bankroll_log)

\* Both succeed, the lower target earlier than the higher one, which has
\* lost a spin on its way.
C19_Witness ==
    /\ PairDone
    /\ 0 < target_low /\ target_low < target_high
    /\ low.returned = <<1>> /\ high.returned = <<1>>
    /\ Len(low.bankroll_log) < Len(high.bankroll_log)
    /\ \E k \in 1 .. Len(high.bankroll_log) - 1 :
         high.bankroll_log[k + 1] < high.bankroll_log[k]

====
